---- MODULE Spec2Model ----
(***************************************************************************)
(* Careful Resume (quiche/src/recovery/resume.rs): the Resume state        *)
(* machine driven by the congestion controller through setup, reset,       *)
(* send_packet, process_ack and congestion_event.                          *)
(*                                                                         *)
(* Durations are integers (a count of the Duration's smallest unit), so    *)
(* `Duration / 2` is floor division and `Duration * 10` is multiplication. *)
(* usize/u64 values are naturals; the environment never credits an ack     *)
(* that would take pipesize past MaxPipesize, so no addition overflows.    *)
(* The caller passes packets, flight sizes and windows of at least 1 byte. *)
(*                                                                         *)
(* CRMetrics, the observe-phase estimator, and the qlog projector          *)
(* (Resume::maybe_qlog, QlogMetrics) are modelled beside it. The estimator *)
(* reads the clock in whole seconds; its last_update is kept as the time   *)
(* that has passed since it, which is all maybe_update uses of it.         *)
(***************************************************************************)
EXTENDS Integers, Sequences, FiniteSets, TLC

\* ---------------------------------------------------------------- bounds
MaxPkt == 1            \* packet numbers are 0..MaxPkt
MaxSize == 1           \* Acked.size is 1..MaxSize
MaxFlight == 1         \* flightsize is 1..MaxFlight
MaxCwnd == 1           \* cwnd passed to send_packet is 1..MaxCwnd
MaxPrevCwnd == 4       \* previous_cwnd passed to setup is 0..MaxPrevCwnd
MaxPrevRtt == 1        \* previous_rtt passed to setup is 0..MaxPrevRtt
MaxPipesize == 3       \* acks are credited only while pipesize stays <= this
MaxIw == 1             \* the iw given to CRMetrics::new is 0..MaxIw
MaxMinRtt == 1         \* new_min_rtt given to the estimator is 0..MaxMinRtt
MaxWindow == 5         \* new_cwnd given to the estimator is 0..MaxWindow
MaxSince == 62         \* the clock is read only while it is at most this
                       \* many seconds past CRMetrics.last_update
MaxLogged == 2         \* cwnd and ssthresh given to maybe_qlog are 1..MaxLogged

PktNums == 0..MaxPkt
Sizes == 1..MaxSize
Flights == 1..MaxFlight
Cwnds == 1..MaxCwnd
PrevCwnds == 0..MaxPrevCwnd
PrevRtts == 0..MaxPrevRtt
\* RTT samples on both sides of previous_rtt / 2 and of previous_rtt * 10
RttSamples == {0, 1, 2, 9, 10}
Iws == 0..MaxIw
MinRtts == 0..MaxMinRtt
Windows == 0..MaxWindow
Logged == 1..MaxLogged

\* const CR_EVENT_MAXIMUM_GAP, in seconds
CR_EVENT_MAXIMUM_GAP == 60
\* seconds between two readings of the clock: none, a few, and both sides of
\* CR_EVENT_MAXIMUM_GAP
Elapsed == {0, 2, CR_EVENT_MAXIMUM_GAP, CR_EVENT_MAXIMUM_GAP + 1}

\* ------------------------------------------------------------- data model
\* Option<T>
None == <<>>
Some(v) == <<v>>

\* enum CrState
Reconnaissance == [tag |-> "Reconnaissance", mark |-> 0]
Unvalidated(p) == [tag |-> "Unvalidated", mark |-> p]
Validating(p) == [tag |-> "Validating", mark |-> p]
SafeRetreat(p) == [tag |-> "SafeRetreat", mark |-> p]
Normal == [tag |-> "Normal", mark |-> 0]

CrStates == {Reconnaissance, Normal}
            \cup {Unvalidated(p) : p \in PktNums}
            \cup {Validating(p) : p \in PktNums}
            \cup {SafeRetreat(p) : p \in PktNums}

\* Option<CarefulResumeTrigger>, as far as change_state records it
Triggers == {"CwndLimited", "RttNotValidated", "CrMarkAcknowledged",
             "PacketLoss", "ExitRecovery"}

VARIABLES
    enabled,                \* Resume.enabled
    cr_state,               \* Resume.cr_state
    previous_rtt,           \* Resume.previous_rtt
    previous_cwnd,          \* Resume.previous_cwnd
    pipesize,               \* Resume.pipesize
    last_trigger,           \* Resume.last_trigger
    call,                   \* the last public call and its arguments
    ret,                    \* what that call returned
    pre,                    \* cr_state and pipesize when that call was made
    last_largest_pkt_sent,  \* the largest_pkt_sent a monotone caller passed last
    setup_called,           \* setup() was called on this instance
    twin,                   \* a second Resume, constructed anew with the same
                            \* remembered parameters at each reset() of the
                            \* first and given the same calls since, with
                            \* what its last call returned
    metrics,                \* a CRMetrics: iw, min_rtt (microseconds), cwnd
    since_last_update,      \* Instant::now() - metrics.last_update, in
                            \* seconds, when the clock was last read
    observed,               \* the last call on metrics, with its arguments,
                            \* the time_since_last_update it computed and
                            \* the (min_rtt, cwnd) it found
    event,                  \* what that call returned, an Option<CREvent>
    qlog_metrics,           \* Resume.qlog_metrics
    logged,                 \* the last call, if it was maybe_qlog, with its
                            \* arguments
    qlog_event,             \* what that maybe_qlog call returned
    last_emitted            \* the cr_state for which maybe_qlog last returned
                            \* an event, None before the first event

resume == <<enabled, cr_state, previous_rtt, previous_cwnd, pipesize,
            last_trigger>>
machine == <<enabled, cr_state, previous_rtt, previous_cwnd, pipesize,
             last_trigger, call, ret, pre, last_largest_pkt_sent,
             setup_called, twin>>
estimator == <<metrics, since_last_update, observed, event>>
projector == <<qlog_metrics, logged, qlog_event, last_emitted>>
vars == <<enabled, cr_state, previous_rtt, previous_cwnd, pipesize,
          last_trigger, call, ret, pre, last_largest_pkt_sent, setup_called,
          twin, metrics, since_last_update, observed, event, qlog_metrics,
          logged, qlog_event, last_emitted>>

\* the record of a call: the fields an operation does not take stay 0/FALSE
NoCall == [op |-> "new", largest_pkt_sent |-> 0, pkt_num |-> 0, size |-> 0,
           flightsize |-> 0, rtt_sample |-> 0, cwnd |-> 0,
           app_limited |-> FALSE, previous_rtt |-> 0, previous_cwnd |-> 0]

\* the record of a return value: `value` is the usize of send_packet and
\* congestion_event, the two options are the pair of process_ack
NoRet == [value |-> 0, new_cwnd |-> None, new_ssthresh |-> None]
UsizeRet(v) == [value |-> v, new_cwnd |-> None, new_ssthresh |-> None]
AckRet(c, s) == [value |-> 0, new_cwnd |-> c, new_ssthresh |-> s]

\* usize::saturating_sub
saturating_sub(a, b) == IF a >= b THEN a - b ELSE 0

\* ------------------------------------------- Resume, as a value (the twin)
\* Resume::new
new_resume ==
    [enabled |-> FALSE, cr_state |-> Reconnaissance, previous_rtt |-> 0,
     previous_cwnd |-> 0, pipesize |-> 0, last_trigger |-> None]

\* Resume::setup on the Resume value r
setup_of(r, rtt, cwnd) ==
    [r EXCEPT !.enabled = TRUE, !.previous_rtt = rtt, !.previous_cwnd = cwnd]

\* Resume::change_state on the Resume value r
change_state_of(r, state, trigger) ==
    [r EXCEPT !.cr_state = state, !.last_trigger = Some(trigger)]

\* Resume::process_ack on the Resume value r: the value left and the result
process_ack_of(r, largest_pkt_sent, packet, flightsize) ==
    LET credited == [r EXCEPT !.pipesize = r.pipesize + packet.size] IN
    CASE r.cr_state.tag = "Unvalidated" ->
           IF packet.pkt_num >= r.cr_state.mark
           THEN [self |-> change_state_of(credited, Validating(largest_pkt_sent),
                                          "CrMarkAcknowledged"),
                 ret |-> AckRet(Some(flightsize), None)]
           ELSE [self |-> credited, ret |-> AckRet(None, None)]
      [] r.cr_state.tag = "Validating" ->
           IF packet.pkt_num >= r.cr_state.mark
           THEN [self |-> change_state_of(credited, Normal, "CrMarkAcknowledged"),
                 ret |-> AckRet(None, None)]
           ELSE [self |-> credited, ret |-> AckRet(None, None)]
      [] r.cr_state.tag = "SafeRetreat" ->
           IF packet.pkt_num >= r.cr_state.mark
           THEN [self |-> change_state_of(r, Normal, "ExitRecovery"),
                 ret |-> AckRet(None, Some(r.pipesize))]
           ELSE [self |-> credited, ret |-> AckRet(None, None)]
      [] OTHER -> [self |-> r, ret |-> AckRet(None, None)]

\* Resume::send_packet on the Resume value r: the value left and the result
send_packet_of(r, rtt_sample, cwnd, largest_pkt_sent, app_limited) ==
    LET jump == saturating_sub(r.previous_cwnd \div 2, cwnd) IN
    IF app_limited
    THEN [self |-> r, ret |-> UsizeRet(0)]
    ELSE IF r.cr_state = Reconnaissance
    THEN IF jump = 0
         THEN [self |-> change_state_of(r, Normal, "CwndLimited"),
               ret |-> UsizeRet(0)]
         ELSE IF \/ rtt_sample <= r.previous_rtt \div 2
                 \/ rtt_sample >= r.previous_rtt * 10
         THEN [self |-> change_state_of(r, Normal, "RttNotValidated"),
               ret |-> UsizeRet(0)]
         ELSE [self |-> [change_state_of(r, Unvalidated(largest_pkt_sent),
                                         "CwndLimited")
                            EXCEPT !.pipesize = cwnd],
               ret |-> UsizeRet(jump)]
    ELSE [self |-> r, ret |-> UsizeRet(0)]

\* Resume::congestion_event on the Resume value r: the value left and the
\* result
congestion_event_of(r, largest_pkt_sent) ==
    CASE r.cr_state.tag = "Unvalidated" ->
           [self |-> change_state_of(r, SafeRetreat(largest_pkt_sent),
                                     "PacketLoss"),
            ret |-> UsizeRet(r.pipesize \div 2)]
      [] r.cr_state.tag = "Validating" ->
           [self |-> change_state_of(r, SafeRetreat(r.cr_state.mark),
                                     "PacketLoss"),
            ret |-> UsizeRet(r.pipesize \div 2)]
      [] r.cr_state.tag = "Reconnaissance" ->
           [self |-> change_state_of(r, Normal, "PacketLoss"),
            ret |-> UsizeRet(0)]
      [] OTHER -> [self |-> r, ret |-> UsizeRet(0)]

\* -------------------------------------------------------------- CRMetrics
\* The f64 arithmetic of maybe_update is done here in exact rationals, with
\* whole seconds and whole microseconds: v < m - m * (1 / secs) is
\* v * secs < m * secs - m, and likewise for the upper end.

\* CRMetrics::new; last_update is the time of construction
CRMetrics_new(iw) == [iw |-> iw, min_rtt |-> 0, cwnd |-> 0]

\* the record of a call on the estimator
NoObservation == [op |-> "new", new_min_rtt |-> 0, new_cwnd |-> 0,
                  time_since_last_update |-> 0,
                  before |-> [min_rtt |-> 0, cwnd |-> 0]]

\* maybe_update: value lies outside stored -/+ stored * (1 / secs)
outside_range(value, stored, secs) ==
    \/ value * secs < stored * secs - stored
    \/ value * secs > stored * secs + stored

\* should_update, with the gap tested before the initial-window floor
should_update_gap_first(time_since_last_update, new_min_rtt, new_cwnd) ==
    IF time_since_last_update > CR_EVENT_MAXIMUM_GAP THEN TRUE
    ELSE IF new_cwnd < metrics.iw * 4 THEN FALSE
    ELSE IF time_since_last_update = 0 THEN FALSE
    ELSE \/ outside_range(new_min_rtt, metrics.min_rtt, time_since_last_update)
         \/ outside_range(new_cwnd, metrics.cwnd, time_since_last_update)

\* should_update, forcing the update as soon as the gap is reached
should_update_at_gap(time_since_last_update, new_min_rtt, new_cwnd) ==
    IF new_cwnd < metrics.iw * 4 THEN FALSE
    ELSE IF time_since_last_update >= CR_EVENT_MAXIMUM_GAP THEN TRUE
    ELSE IF time_since_last_update = 0 THEN FALSE
    ELSE \/ outside_range(new_min_rtt, metrics.min_rtt, time_since_last_update)
         \/ outside_range(new_cwnd, metrics.cwnd, time_since_last_update)

\* should_update, with the ranges alone deciding
should_update_ranges_only(time_since_last_update, new_min_rtt, new_cwnd) ==
    IF new_cwnd < metrics.iw * 4 THEN FALSE
    ELSE IF time_since_last_update = 0 THEN FALSE
    ELSE \/ outside_range(new_min_rtt, metrics.min_rtt, time_since_last_update)
         \/ outside_range(new_cwnd, metrics.cwnd, time_since_last_update)

\* maybe_update: let should_update
should_update(time_since_last_update, new_min_rtt, new_cwnd) ==
    IF new_cwnd < metrics.iw * 4 THEN FALSE
    ELSE IF time_since_last_update > CR_EVENT_MAXIMUM_GAP THEN TRUE
    ELSE IF time_since_last_update = 0 THEN FALSE
    ELSE \/ outside_range(new_min_rtt, metrics.min_rtt, time_since_last_update)
         \/ outside_range(new_cwnd, metrics.cwnd, time_since_last_update)

\* CRMetrics::maybe_update, called `elapsed` seconds after the clock was
\* last read
CRMetrics_maybe_update(elapsed, new_min_rtt, new_cwnd) ==
    LET time_since_last_update == since_last_update + elapsed
    IN IF should_update(time_since_last_update, new_min_rtt, new_cwnd)
       THEN /\ metrics' = [metrics EXCEPT !.min_rtt = new_min_rtt,
                                          !.cwnd = new_cwnd]
            /\ since_last_update' = 0
            /\ event' = Some([cwnd |-> new_cwnd, min_rtt |-> new_min_rtt])
       ELSE /\ since_last_update' = time_since_last_update
            /\ event' = None
            /\ UNCHANGED metrics

\* ------------------------------------------------------------ QlogMetrics
\* QlogMetrics::default
QlogMetrics_default ==
    [state |-> None, pipesize |-> 0, cwnd |-> 0, ssthresh |-> 0,
     trigger |-> None, previous_rtt |-> 0, previous_cwnd |-> 0]

\* the record of a maybe_qlog call; op is "other" after any other call
NoLog == [op |-> "other", cwnd |-> 0, ssthresh |-> 0]

\* QlogMetrics::map_state
map_state(state) ==
    CASE state.tag = "Reconnaissance" -> "Reconnaissance"
      [] state.tag = "Unvalidated" -> "Unvalidated"
      [] state.tag = "Validating" -> "Validating"
      [] state.tag = "SafeRetreat" -> "SafeRetreat"
      [] state.tag = "Normal" -> "Normal"

\* QlogMetrics::map_cr_mark
map_cr_mark(state) ==
    IF state.tag \in {"Reconnaissance", "Normal"} THEN 0 ELSE state.mark

\* EventData::CarefulResumePhaseUpdated, as maybe_update builds it; Durations
\* are counted in milliseconds here, which is what as_secs_f32() * 1000.0
\* gives
CarefulResumePhaseUpdated(old_state, new_state, latest) ==
    [old |-> IF old_state = None THEN None ELSE Some(map_state(old_state[1])),
     new |-> map_state(new_state),
     state_data |-> [pipesize |-> latest.pipesize,
                     cr_mark |-> map_cr_mark(new_state),
                     cwnd |-> Some(latest.cwnd),
                     ssthresh |-> Some(latest.ssthresh)],
     restored_data |->
         IF latest.previous_rtt # 0 \/ latest.previous_cwnd # 0
         THEN Some([previous_cwnd |-> latest.previous_cwnd,
                    previous_rtt |-> latest.previous_rtt])
         ELSE None,
     trigger |-> latest.trigger]

\* QlogMetrics::maybe_update, comparing every field of latest
QlogMetrics_maybe_update_any_field(latest) ==
    IF latest.state # None /\ qlog_metrics # latest
    THEN /\ qlog_metrics' = latest
         /\ qlog_event' = Some(CarefulResumePhaseUpdated(
                                   qlog_metrics.state, latest.state[1], latest))
    ELSE /\ qlog_event' = None
         /\ UNCHANGED qlog_metrics

\* QlogMetrics::maybe_update
QlogMetrics_maybe_update(latest) ==
    IF latest.state # None /\ qlog_metrics.state # Some(latest.state[1])
    THEN /\ qlog_metrics' = [state |-> Some(latest.state[1]),
                             pipesize |-> latest.pipesize,
                             cwnd |-> latest.cwnd,
                             ssthresh |-> latest.ssthresh,
                             trigger |-> latest.trigger,
                             previous_rtt |-> latest.previous_rtt,
                             previous_cwnd |-> latest.previous_cwnd]
         /\ qlog_event' = Some(CarefulResumePhaseUpdated(
                                   qlog_metrics.state, latest.state[1], latest))
    ELSE /\ qlog_event' = None
         /\ UNCHANGED qlog_metrics

\* ---------------------------------------------------------------- Resume
\* Resume::new and CRMetrics::new
Init ==
    /\ enabled = FALSE
    /\ cr_state = Reconnaissance
    /\ previous_rtt = 0
    /\ previous_cwnd = 0
    /\ pipesize = 0
    /\ last_trigger = None
    /\ call = NoCall
    /\ ret = NoRet
    /\ pre = [cr_state |-> Reconnaissance, pipesize |-> 0]
    /\ last_largest_pkt_sent = 0
    /\ setup_called = FALSE
    /\ twin = [self |-> new_resume, ret |-> NoRet]
    /\ metrics = CRMetrics_new(0)
    /\ since_last_update = 0
    /\ observed = NoObservation
    /\ event = None
    /\ qlog_metrics = QlogMetrics_default
    /\ logged = NoLog
    /\ qlog_event = None
    /\ last_emitted = None

\* Resume::change_state
change_state(state, trigger) ==
    /\ cr_state' = state
    /\ last_trigger' = Some(trigger)

\* Resume::setup, with the slip of also restarting the state machine
setup_restarting(rtt, cwnd) ==
    /\ enabled' = TRUE
    /\ previous_rtt' = rtt
    /\ previous_cwnd' = cwnd
    /\ cr_state' = Reconnaissance
    /\ pipesize' = 0
    /\ ret' = NoRet
    /\ UNCHANGED last_trigger

\* Resume::setup, keeping the parameters of the first call
setup_once(rtt, cwnd) ==
    /\ enabled' = TRUE
    /\ previous_rtt' = IF enabled THEN previous_rtt ELSE rtt
    /\ previous_cwnd' = IF enabled THEN previous_cwnd ELSE cwnd
    /\ ret' = NoRet
    /\ UNCHANGED <<cr_state, pipesize, last_trigger>>

\* Resume::setup
setup(rtt, cwnd) ==
    /\ enabled' = TRUE
    /\ previous_rtt' = rtt
    /\ previous_cwnd' = cwnd
    /\ ret' = NoRet
    /\ UNCHANGED <<cr_state, pipesize, last_trigger>>

\* Resume::reset, with the slip of keeping the pipesize
reset_keeping_pipesize ==
    /\ cr_state' = Reconnaissance
    /\ ret' = NoRet
    /\ UNCHANGED <<enabled, previous_rtt, previous_cwnd, pipesize, last_trigger>>

\* Resume::reset, with the slip of keeping the phase
reset_keeping_phase ==
    /\ pipesize' = 0
    /\ ret' = NoRet
    /\ UNCHANGED <<enabled, cr_state, previous_rtt, previous_cwnd, last_trigger>>

\* Resume::reset
reset ==
    /\ cr_state' = Reconnaissance
    /\ pipesize' = 0
    /\ ret' = NoRet
    /\ UNCHANGED <<enabled, previous_rtt, previous_cwnd, last_trigger>>

\* Resume::enabled, returning the flag alone
enabled_flag == enabled

\* Resume::enabled
enabled_query == IF enabled THEN cr_state # Normal ELSE FALSE

\* process_ack, arm Unvalidated, with `>` for `>=`
process_ack_Unvalidated_strict(first_packet, largest_pkt_sent, packet, flightsize) ==
    /\ pipesize' = pipesize + packet.size
    /\ IF packet.pkt_num > first_packet
       THEN /\ change_state(Validating(largest_pkt_sent), "CrMarkAcknowledged")
            /\ ret' = AckRet(Some(flightsize), None)
       ELSE /\ UNCHANGED <<cr_state, last_trigger>>
            /\ ret' = AckRet(None, None)

\* process_ack, arm Unvalidated, returning the flightsize on every ack
process_ack_Unvalidated_clamping(first_packet, largest_pkt_sent, packet, flightsize) ==
    /\ pipesize' = pipesize + packet.size
    /\ IF packet.pkt_num >= first_packet
       THEN change_state(Validating(largest_pkt_sent), "CrMarkAcknowledged")
       ELSE UNCHANGED <<cr_state, last_trigger>>
    /\ ret' = AckRet(Some(flightsize), None)

\* process_ack, arm CrState::Unvalidated(first_packet)
process_ack_Unvalidated(first_packet, largest_pkt_sent, packet, flightsize) ==
    /\ pipesize' = pipesize + packet.size
    /\ IF packet.pkt_num >= first_packet
       THEN /\ change_state(Validating(largest_pkt_sent), "CrMarkAcknowledged")
            /\ ret' = AckRet(Some(flightsize), None)
       ELSE /\ UNCHANGED <<cr_state, last_trigger>>
            /\ ret' = AckRet(None, None)

\* process_ack, arm Validating, crediting only the packets before the mark
process_ack_Validating_uncredited(last_packet, packet) ==
    /\ IF packet.pkt_num >= last_packet
       THEN change_state(Normal, "CrMarkAcknowledged") /\ UNCHANGED pipesize
       ELSE /\ pipesize' = pipesize + packet.size
            /\ UNCHANGED <<cr_state, last_trigger>>
    /\ ret' = AckRet(None, None)

\* process_ack, arm Validating, handing out a slow-start threshold at the end
process_ack_Validating_ssthresh(last_packet, packet) ==
    /\ pipesize' = pipesize + packet.size
    /\ IF packet.pkt_num >= last_packet
       THEN /\ change_state(Normal, "CrMarkAcknowledged")
            /\ ret' = AckRet(None, Some(pipesize'))
       ELSE /\ UNCHANGED <<cr_state, last_trigger>>
            /\ ret' = AckRet(None, None)

\* process_ack, arm CrState::Validating(last_packet)
process_ack_Validating(last_packet, packet) ==
    /\ pipesize' = pipesize + packet.size
    /\ IF packet.pkt_num >= last_packet
       THEN change_state(Normal, "CrMarkAcknowledged")
       ELSE UNCHANGED <<cr_state, last_trigger>>
    /\ ret' = AckRet(None, None)

\* process_ack, arm SafeRetreat, crediting the packet before the comparison
process_ack_SafeRetreat_crediting(last_packet, packet) ==
    /\ pipesize' = pipesize + packet.size
    /\ IF packet.pkt_num >= last_packet
       THEN /\ change_state(Normal, "ExitRecovery")
            /\ ret' = AckRet(None, Some(pipesize'))
       ELSE /\ UNCHANGED <<cr_state, last_trigger>>
            /\ ret' = AckRet(None, None)

\* process_ack, arm SafeRetreat, with the comparison turned around
process_ack_SafeRetreat_flipped(last_packet, packet) ==
    IF packet.pkt_num <= last_packet
    THEN /\ change_state(Normal, "ExitRecovery")
         /\ ret' = AckRet(None, Some(pipesize))
         /\ UNCHANGED pipesize
    ELSE /\ pipesize' = pipesize + packet.size
         /\ ret' = AckRet(None, None)
         /\ UNCHANGED <<cr_state, last_trigger>>

\* process_ack, arm SafeRetreat, starting over instead of finishing
process_ack_SafeRetreat_restarting(last_packet, packet) ==
    IF packet.pkt_num >= last_packet
    THEN /\ change_state(Reconnaissance, "ExitRecovery")
         /\ ret' = AckRet(None, Some(pipesize))
         /\ UNCHANGED pipesize
    ELSE /\ pipesize' = pipesize + packet.size
         /\ ret' = AckRet(None, None)
         /\ UNCHANGED <<cr_state, last_trigger>>

\* process_ack, arm SafeRetreat, handing out the threshold without leaving
process_ack_SafeRetreat_staying(last_packet, packet) ==
    IF packet.pkt_num >= last_packet
    THEN /\ ret' = AckRet(None, Some(pipesize))
         /\ UNCHANGED <<cr_state, last_trigger, pipesize>>
    ELSE /\ pipesize' = pipesize + packet.size
         /\ ret' = AckRet(None, None)
         /\ UNCHANGED <<cr_state, last_trigger>>

\* process_ack, arm CrState::SafeRetreat(last_packet)
process_ack_SafeRetreat(last_packet, packet) ==
    IF packet.pkt_num >= last_packet
    THEN /\ change_state(Normal, "ExitRecovery")
         /\ ret' = AckRet(None, Some(pipesize))
         /\ UNCHANGED pipesize
    ELSE /\ pipesize' = pipesize + packet.size
         /\ ret' = AckRet(None, None)
         /\ UNCHANGED <<cr_state, last_trigger>>

\* Resume::process_ack; packet is an Acked, [pkt_num, size]
process_ack(largest_pkt_sent, packet, flightsize) ==
    /\ CASE cr_state.tag = "Unvalidated" ->
              process_ack_Unvalidated(cr_state.mark, largest_pkt_sent, packet,
                                      flightsize)
         [] cr_state.tag = "Validating" ->
              process_ack_Validating(cr_state.mark, packet)
         [] cr_state.tag = "SafeRetreat" ->
              process_ack_SafeRetreat(cr_state.mark, packet)
         [] OTHER ->
              /\ ret' = AckRet(None, None)
              /\ UNCHANGED <<cr_state, last_trigger, pipesize>>
    /\ UNCHANGED <<enabled, previous_rtt, previous_cwnd>>

\* send_packet, with the first packet number taken as the next one to send
send_packet_next_pkt(rtt_sample, cwnd, largest_pkt_sent, app_limited) ==
    /\ IF app_limited
       THEN /\ ret' = UsizeRet(0)
            /\ UNCHANGED <<cr_state, last_trigger, pipesize>>
       ELSE IF cr_state = Reconnaissance
       THEN LET jump == saturating_sub(previous_cwnd \div 2, cwnd) IN
            IF jump = 0
            THEN /\ change_state(Normal, "CwndLimited")
                 /\ ret' = UsizeRet(0)
                 /\ UNCHANGED pipesize
            ELSE IF \/ rtt_sample <= previous_rtt \div 2
                    \/ rtt_sample >= previous_rtt * 10
            THEN /\ change_state(Normal, "RttNotValidated")
                 /\ ret' = UsizeRet(0)
                 /\ UNCHANGED pipesize
            ELSE /\ change_state(Unvalidated(largest_pkt_sent + 1), "CwndLimited")
                 /\ pipesize' = cwnd
                 /\ ret' = UsizeRet(jump)
       ELSE /\ ret' = UsizeRet(0)
            /\ UNCHANGED <<cr_state, last_trigger, pipesize>>
    /\ UNCHANGED <<enabled, previous_rtt, previous_cwnd>>

\* send_packet, with the jump taken to the whole previous_cwnd
send_packet_full_jump(rtt_sample, cwnd, largest_pkt_sent, app_limited) ==
    /\ IF app_limited
       THEN /\ ret' = UsizeRet(0)
            /\ UNCHANGED <<cr_state, last_trigger, pipesize>>
       ELSE IF cr_state = Reconnaissance
       THEN LET jump == saturating_sub(previous_cwnd, cwnd) IN
            IF jump = 0
            THEN /\ change_state(Normal, "CwndLimited")
                 /\ ret' = UsizeRet(0)
                 /\ UNCHANGED pipesize
            ELSE IF \/ rtt_sample <= previous_rtt \div 2
                    \/ rtt_sample >= previous_rtt * 10
            THEN /\ change_state(Normal, "RttNotValidated")
                 /\ ret' = UsizeRet(0)
                 /\ UNCHANGED pipesize
            ELSE /\ change_state(Unvalidated(largest_pkt_sent), "CwndLimited")
                 /\ pipesize' = cwnd
                 /\ ret' = UsizeRet(jump)
       ELSE /\ ret' = UsizeRet(0)
            /\ UNCHANGED <<cr_state, last_trigger, pipesize>>
    /\ UNCHANGED <<enabled, previous_rtt, previous_cwnd>>

\* send_packet, with the RTT check made before the jump == 0 check
send_packet_rtt_first(rtt_sample, cwnd, largest_pkt_sent, app_limited) ==
    /\ IF app_limited
       THEN /\ ret' = UsizeRet(0)
            /\ UNCHANGED <<cr_state, last_trigger, pipesize>>
       ELSE IF cr_state = Reconnaissance
       THEN LET jump == saturating_sub(previous_cwnd \div 2, cwnd) IN
            IF \/ rtt_sample <= previous_rtt \div 2
               \/ rtt_sample >= previous_rtt * 10
            THEN /\ change_state(Normal, "RttNotValidated")
                 /\ ret' = UsizeRet(0)
                 /\ UNCHANGED pipesize
            ELSE IF jump = 0
            THEN /\ change_state(Normal, "CwndLimited")
                 /\ ret' = UsizeRet(0)
                 /\ UNCHANGED pipesize
            ELSE /\ change_state(Unvalidated(largest_pkt_sent), "CwndLimited")
                 /\ pipesize' = cwnd
                 /\ ret' = UsizeRet(jump)
       ELSE /\ ret' = UsizeRet(0)
            /\ UNCHANGED <<cr_state, last_trigger, pipesize>>
    /\ UNCHANGED <<enabled, previous_rtt, previous_cwnd>>

\* send_packet, with both limits of the RTT check exclusive
send_packet_strict_rtt(rtt_sample, cwnd, largest_pkt_sent, app_limited) ==
    /\ IF app_limited
       THEN /\ ret' = UsizeRet(0)
            /\ UNCHANGED <<cr_state, last_trigger, pipesize>>
       ELSE IF cr_state = Reconnaissance
       THEN LET jump == saturating_sub(previous_cwnd \div 2, cwnd) IN
            IF jump = 0
            THEN /\ change_state(Normal, "CwndLimited")
                 /\ ret' = UsizeRet(0)
                 /\ UNCHANGED pipesize
            ELSE IF \/ rtt_sample < previous_rtt \div 2
                    \/ rtt_sample > previous_rtt * 10
            THEN /\ change_state(Normal, "RttNotValidated")
                 /\ ret' = UsizeRet(0)
                 /\ UNCHANGED pipesize
            ELSE /\ change_state(Unvalidated(largest_pkt_sent), "CwndLimited")
                 /\ pipesize' = cwnd
                 /\ ret' = UsizeRet(jump)
       ELSE /\ ret' = UsizeRet(0)
            /\ UNCHANGED <<cr_state, last_trigger, pipesize>>
    /\ UNCHANGED <<enabled, previous_rtt, previous_cwnd>>

\* send_packet, with app_limited honoured only after Reconnaissance
send_packet_app_limited_late(rtt_sample, cwnd, largest_pkt_sent, app_limited) ==
    /\ IF app_limited /\ cr_state # Reconnaissance
       THEN /\ ret' = UsizeRet(0)
            /\ UNCHANGED <<cr_state, last_trigger, pipesize>>
       ELSE IF cr_state = Reconnaissance
       THEN LET jump == saturating_sub(previous_cwnd \div 2, cwnd) IN
            IF jump = 0
            THEN /\ change_state(Normal, "CwndLimited")
                 /\ ret' = UsizeRet(0)
                 /\ UNCHANGED pipesize
            ELSE IF \/ rtt_sample <= previous_rtt \div 2
                    \/ rtt_sample >= previous_rtt * 10
            THEN /\ change_state(Normal, "RttNotValidated")
                 /\ ret' = UsizeRet(0)
                 /\ UNCHANGED pipesize
            ELSE /\ change_state(Unvalidated(largest_pkt_sent), "CwndLimited")
                 /\ pipesize' = cwnd
                 /\ ret' = UsizeRet(jump)
       ELSE /\ ret' = UsizeRet(0)
            /\ UNCHANGED <<cr_state, last_trigger, pipesize>>
    /\ UNCHANGED <<enabled, previous_rtt, previous_cwnd>>

\* Resume::send_packet
send_packet(rtt_sample, cwnd, largest_pkt_sent, app_limited) ==
    /\ IF app_limited
       THEN /\ ret' = UsizeRet(0)
            /\ UNCHANGED <<cr_state, last_trigger, pipesize>>
       ELSE IF cr_state = Reconnaissance
       THEN LET jump == saturating_sub(previous_cwnd \div 2, cwnd) IN
            IF jump = 0
            THEN /\ change_state(Normal, "CwndLimited")
                 /\ ret' = UsizeRet(0)
                 /\ UNCHANGED pipesize
            ELSE IF \/ rtt_sample <= previous_rtt \div 2
                    \/ rtt_sample >= previous_rtt * 10
            THEN /\ change_state(Normal, "RttNotValidated")
                 /\ ret' = UsizeRet(0)
                 /\ UNCHANGED pipesize
            ELSE /\ change_state(Unvalidated(largest_pkt_sent), "CwndLimited")
                 /\ pipesize' = cwnd
                 /\ ret' = UsizeRet(jump)
       ELSE /\ ret' = UsizeRet(0)
            /\ UNCHANGED <<cr_state, last_trigger, pipesize>>
    /\ UNCHANGED <<enabled, previous_rtt, previous_cwnd>>

\* congestion_event, arm Unvalidated, returning the pipesize itself
congestion_event_Unvalidated_whole(largest_pkt_sent) ==
    /\ change_state(SafeRetreat(largest_pkt_sent), "PacketLoss")
    /\ ret' = UsizeRet(pipesize)
    /\ UNCHANGED pipesize

\* congestion_event, arm Unvalidated, halving the stored pipesize as well
congestion_event_Unvalidated_halving(largest_pkt_sent) ==
    /\ change_state(SafeRetreat(largest_pkt_sent), "PacketLoss")
    /\ pipesize' = pipesize \div 2
    /\ ret' = UsizeRet(pipesize \div 2)

\* congestion_event, arm CrState::Unvalidated(_)
congestion_event_Unvalidated(largest_pkt_sent) ==
    /\ change_state(SafeRetreat(largest_pkt_sent), "PacketLoss")
    /\ ret' = UsizeRet(pipesize \div 2)
    /\ UNCHANGED pipesize

\* congestion_event, arm Validating, taking the mark from the argument
congestion_event_Validating_arg(p, largest_pkt_sent) ==
    /\ change_state(SafeRetreat(largest_pkt_sent), "PacketLoss")
    /\ ret' = UsizeRet(pipesize \div 2)
    /\ UNCHANGED pipesize

\* congestion_event, arm CrState::Validating(p)
congestion_event_Validating(p, largest_pkt_sent) ==
    /\ change_state(SafeRetreat(p), "PacketLoss")
    /\ ret' = UsizeRet(pipesize \div 2)
    /\ UNCHANGED pipesize

\* congestion_event, with Reconnaissance left to the catch-all arm
congestion_event_keeping_reconnaissance(largest_pkt_sent) ==
    /\ CASE cr_state.tag = "Unvalidated" ->
              congestion_event_Unvalidated(largest_pkt_sent)
         [] cr_state.tag = "Validating" ->
              congestion_event_Validating(cr_state.mark, largest_pkt_sent)
         [] OTHER ->
              /\ ret' = UsizeRet(0)
              /\ UNCHANGED <<cr_state, last_trigger, pipesize>>
    /\ UNCHANGED <<enabled, previous_rtt, previous_cwnd>>

\* congestion_event, with SafeRetreat handled by the Unvalidated arm
congestion_event_retreating_again(largest_pkt_sent) ==
    /\ CASE cr_state.tag \in {"Unvalidated", "SafeRetreat"} ->
              congestion_event_Unvalidated(largest_pkt_sent)
         [] cr_state.tag = "Validating" ->
              congestion_event_Validating(cr_state.mark, largest_pkt_sent)
         [] cr_state.tag = "Reconnaissance" ->
              /\ change_state(Normal, "PacketLoss")
              /\ ret' = UsizeRet(0)
              /\ UNCHANGED pipesize
         [] OTHER ->
              /\ ret' = UsizeRet(0)
              /\ UNCHANGED <<cr_state, last_trigger, pipesize>>
    /\ UNCHANGED <<enabled, previous_rtt, previous_cwnd>>

\* Resume::congestion_event
congestion_event(largest_pkt_sent) ==
    /\ CASE cr_state.tag = "Unvalidated" ->
              congestion_event_Unvalidated(largest_pkt_sent)
         [] cr_state.tag = "Validating" ->
              congestion_event_Validating(cr_state.mark, largest_pkt_sent)
         [] cr_state.tag = "Reconnaissance" ->
              /\ change_state(Normal, "PacketLoss")
              /\ ret' = UsizeRet(0)
              /\ UNCHANGED pipesize
         [] OTHER ->
              /\ ret' = UsizeRet(0)
              /\ UNCHANGED <<cr_state, last_trigger, pipesize>>
    /\ UNCHANGED <<enabled, previous_rtt, previous_cwnd>>

\* Resume::maybe_qlog
maybe_qlog(cwnd, ssthresh) ==
    /\ QlogMetrics_maybe_update([state |-> Some(cr_state),
                                 pipesize |-> pipesize,
                                 cwnd |-> cwnd,
                                 ssthresh |-> ssthresh,
                                 trigger |-> last_trigger,
                                 previous_rtt |-> previous_rtt,
                                 previous_cwnd |-> previous_cwnd])
    /\ UNCHANGED resume

\* ------------------------------------------------- the outer controller
\* what a call finds
Snapshot == [cr_state |-> cr_state, pipesize |-> pipesize]

\* process_ack adds packet.size to pipesize in these cases
Credits(pkt_num) ==
    \/ cr_state.tag \in {"Unvalidated", "Validating"}
    \/ cr_state.tag = "SafeRetreat" /\ pkt_num < cr_state.mark

Setup ==
    \E rtt \in PrevRtts, cwnd \in PrevCwnds :
        /\ setup(rtt, cwnd)
        /\ call' = [NoCall EXCEPT !.op = "setup", !.previous_rtt = rtt,
                                  !.previous_cwnd = cwnd]
        /\ pre' = Snapshot
        /\ setup_called' = TRUE
        /\ twin' = [self |-> setup_of(twin.self, rtt, cwnd), ret |-> NoRet]
        /\ UNCHANGED <<last_largest_pkt_sent, estimator, projector>>

Reset ==
    /\ reset
    /\ call' = [NoCall EXCEPT !.op = "reset"]
    /\ pre' = Snapshot
    /\ twin' = [self |-> setup_of(new_resume, previous_rtt, previous_cwnd),
                ret |-> NoRet]
    /\ UNCHANGED <<last_largest_pkt_sent, setup_called, estimator, projector>>

SendPacketWith(lps) ==
    \E rtt_sample \in RttSamples, cwnd \in Cwnds, app_limited \in BOOLEAN :
        /\ send_packet(rtt_sample, cwnd, lps, app_limited)
        /\ call' = [NoCall EXCEPT !.op = "send_packet",
                                  !.rtt_sample = rtt_sample, !.cwnd = cwnd,
                                  !.largest_pkt_sent = lps,
                                  !.app_limited = app_limited]
        /\ pre' = Snapshot
        /\ twin' = send_packet_of(twin.self, rtt_sample, cwnd, lps, app_limited)
        /\ UNCHANGED <<setup_called, estimator, projector>>

ProcessAckWith(lps) ==
    \E pkt_num \in PktNums, size \in Sizes, flightsize \in Flights :
        /\ Credits(pkt_num) => pipesize + size <= MaxPipesize
        /\ process_ack(lps, [pkt_num |-> pkt_num, size |-> size], flightsize)
        /\ call' = [NoCall EXCEPT !.op = "process_ack",
                                  !.largest_pkt_sent = lps,
                                  !.pkt_num = pkt_num, !.size = size,
                                  !.flightsize = flightsize]
        /\ pre' = Snapshot
        /\ twin' = process_ack_of(twin.self, lps,
                                  [pkt_num |-> pkt_num, size |-> size],
                                  flightsize)
        /\ UNCHANGED <<setup_called, estimator, projector>>

CongestionEventWith(lps) ==
    /\ congestion_event(lps)
    /\ call' = [NoCall EXCEPT !.op = "congestion_event",
                              !.largest_pkt_sent = lps]
    /\ pre' = Snapshot
    /\ twin' = congestion_event_of(twin.self, lps)
    /\ UNCHANGED <<setup_called, estimator, projector>>

\* any caller
SendPacket ==
    \E lps \in PktNums :
        SendPacketWith(lps) /\ UNCHANGED last_largest_pkt_sent
ProcessAck ==
    \E lps \in PktNums :
        ProcessAckWith(lps) /\ UNCHANGED last_largest_pkt_sent
CongestionEvent ==
    \E lps \in PktNums :
        CongestionEventWith(lps) /\ UNCHANGED last_largest_pkt_sent

Next == Setup \/ Reset \/ SendPacket \/ ProcessAck \/ CongestionEvent

Spec == Init /\ [][Next]_vars

\* a caller whose largest_pkt_sent never goes back
SendPacketMono ==
    \E lps \in PktNums :
        /\ lps >= last_largest_pkt_sent
        /\ SendPacketWith(lps)
        /\ last_largest_pkt_sent' = lps
ProcessAckMono ==
    \E lps \in PktNums :
        /\ lps >= last_largest_pkt_sent
        /\ ProcessAckWith(lps)
        /\ last_largest_pkt_sent' = lps
CongestionEventMono ==
    \E lps \in PktNums :
        /\ lps >= last_largest_pkt_sent
        /\ CongestionEventWith(lps)
        /\ last_largest_pkt_sent' = lps

NextMono ==
    Setup \/ Reset \/ SendPacketMono \/ ProcessAckMono \/ CongestionEventMono

SpecMono == Init /\ [][NextMono]_vars

\* a connection that is never reset, whose controller goes on delivering
\* acks: the phases Unvalidated, Validating and SafeRetreat each wait for an
\* ack at or above their mark
InCarefulResume == cr_state.tag \in {"Unvalidated", "Validating", "SafeRetreat"}

\* setup with the one (previous_rtt, previous_cwnd) pair this connection
\* remembers
SetupRemembered ==
    /\ Setup
    /\ call'.previous_rtt = MaxPrevRtt
    /\ call'.previous_cwnd = MaxPrevCwnd

\* an ack that the current phase is not waiting for
AckBeforeMark ==
    /\ ProcessAckMono
    /\ ~(InCarefulResume /\ call'.pkt_num >= cr_state.mark)

\* an ack at or above the mark of the current phase; Unvalidated and
\* Validating credit it, once each
AckAtMark ==
    \E lps \in PktNums, pkt_num \in PktNums, size \in Sizes,
       flightsize \in Flights :
        /\ lps >= last_largest_pkt_sent
        /\ InCarefulResume
        /\ pkt_num >= cr_state.mark
        /\ process_ack(lps, [pkt_num |-> pkt_num, size |-> size], flightsize)
        /\ call' = [NoCall EXCEPT !.op = "process_ack",
                                  !.largest_pkt_sent = lps,
                                  !.pkt_num = pkt_num, !.size = size,
                                  !.flightsize = flightsize]
        /\ pre' = Snapshot
        /\ twin' = process_ack_of(twin.self, lps,
                                  [pkt_num |-> pkt_num, size |-> size],
                                  flightsize)
        /\ last_largest_pkt_sent' = lps
        /\ UNCHANGED <<setup_called, estimator, projector>>

NextLive ==
    \/ SetupRemembered \/ SendPacketMono \/ CongestionEventMono
    \/ AckBeforeMark \/ AckAtMark

SpecLive == Init /\ [][NextLive]_vars /\ WF_vars(AckAtMark)

\* the estimator on its own: it is constructed with an initial window and
\* shown (min_rtt, cwnd) pairs as time passes
NewMetrics ==
    \E iw \in Iws :
        /\ metrics' = CRMetrics_new(iw)
        /\ since_last_update' = 0
        /\ observed' = NoObservation
        /\ event' = None
        /\ UNCHANGED <<machine, projector>>

MaybeUpdate ==
    \E elapsed \in Elapsed, new_min_rtt \in MinRtts, new_cwnd \in Windows :
        /\ since_last_update + elapsed <= MaxSince
        /\ CRMetrics_maybe_update(elapsed, new_min_rtt, new_cwnd)
        /\ observed' = [op |-> "maybe_update",
                        new_min_rtt |-> new_min_rtt, new_cwnd |-> new_cwnd,
                        time_since_last_update |-> since_last_update + elapsed,
                        before |-> [min_rtt |-> metrics.min_rtt,
                                    cwnd |-> metrics.cwnd]]
        /\ UNCHANGED <<machine, projector>>

NextMetrics == NewMetrics \/ MaybeUpdate

SpecMetrics == Init /\ [][NextMetrics]_vars

\* the controller with the qlog feature: after any call it may ask
\* maybe_qlog for an event; it remembers one (previous_rtt, previous_cwnd)
\* pair, and the calls on Resume themselves are not recorded here
Unrecorded ==
    /\ logged' = NoLog
    /\ qlog_event' = None
    /\ UNCHANGED <<call, pre, last_largest_pkt_sent, setup_called, twin,
                   estimator, qlog_metrics, last_emitted>>

QlogSetup ==
    /\ setup(MaxPrevRtt, MaxPrevCwnd)
    /\ Unrecorded

QlogReset == reset /\ Unrecorded

QlogSendPacket ==
    /\ \E rtt_sample \in RttSamples, cwnd \in Cwnds, lps \in PktNums,
          app_limited \in BOOLEAN :
           send_packet(rtt_sample, cwnd, lps, app_limited)
    /\ Unrecorded

QlogProcessAck ==
    /\ \E lps \in PktNums, pkt_num \in PktNums, size \in Sizes,
          flightsize \in Flights :
           /\ Credits(pkt_num) => pipesize + size <= MaxPipesize
           /\ process_ack(lps, [pkt_num |-> pkt_num, size |-> size],
                          flightsize)
    /\ Unrecorded

QlogCongestionEvent ==
    /\ \E lps \in PktNums : congestion_event(lps)
    /\ Unrecorded

MaybeQlog ==
    \E cwnd \in Logged, ssthresh \in Logged :
        /\ maybe_qlog(cwnd, ssthresh)
        /\ logged' = [op |-> "maybe_qlog", cwnd |-> cwnd,
                      ssthresh |-> ssthresh]
        /\ last_emitted' = IF qlog_event' # None THEN Some(cr_state)
                           ELSE last_emitted
        /\ UNCHANGED <<call, ret, pre, last_largest_pkt_sent, setup_called,
                       twin, estimator>>

NextQlog ==
    \/ QlogSetup \/ QlogReset \/ QlogSendPacket \/ QlogProcessAck
    \/ QlogCongestionEvent \/ MaybeQlog

SpecQlog == Init /\ [][NextQlog]_vars

\* ------------------------------------------------------------ properties
\* C1 as stated: once the phase is Normal, no public operation, reset
\* included, moves it to another phase.
C1_NormalAbsorbing ==
    pre.cr_state = Normal => cr_state = Normal

\* C1: once the phase is Normal, setup, send_packet, process_ack and
\* congestion_event leave it Normal; only reset() takes it out of Normal.
C1_NormalAbsorbingUntilReset ==
    (pre.cr_state = Normal /\ call.op # "reset") => cr_state = Normal

C1_Witness ==
    /\ pre.cr_state = Normal
    /\ call.op = "send_packet"
    /\ ~call.app_limited
    /\ cr_state = Normal

\* a congestion_event call that took the phase into SafeRetreat
EnteredSafeRetreat ==
    /\ call.op = "congestion_event"
    /\ pre.cr_state.tag # "SafeRetreat"
    /\ cr_state.tag = "SafeRetreat"

\* C2 as stated: pipesize never decreases while the phase stays the same, the
\* congestion_event transition into SafeRetreat halves it, and it becomes
\* zero only by reset().
C2_PipesizeHalvedOnRetreat ==
    /\ cr_state = pre.cr_state => pipesize >= pre.pipesize
    /\ EnteredSafeRetreat => pipesize = pre.pipesize \div 2
    /\ (pipesize = 0 /\ pre.pipesize # 0) => call.op = "reset"

\* C2: no call other than reset() decreases pipesize; the congestion_event
\* transition into SafeRetreat returns pipesize / 2 and leaves pipesize as it
\* was; pipesize goes from non-zero to zero only by reset().
C2_PipesizeKeptOnRetreat ==
    /\ call.op # "reset" => pipesize >= pre.pipesize
    /\ EnteredSafeRetreat =>
           pipesize = pre.pipesize /\ ret.value = pre.pipesize \div 2
    /\ (pipesize = 0 /\ pre.pipesize # 0) => call.op = "reset"

C2_Witness ==
    /\ EnteredSafeRetreat
    /\ pre.cr_state.tag = "Unvalidated"
    /\ pre.pipesize >= 2

\* C3: process_ack in Unvalidated(f) leaves the phase at Unvalidated(f) when
\* pkt_num < f, and moves it to Validating(largest_pkt_sent), with the
\* largest_pkt_sent of that call, when pkt_num >= f.
C3_UnvalidatedAck ==
    (call.op = "process_ack" /\ pre.cr_state.tag = "Unvalidated") =>
        IF call.pkt_num < pre.cr_state.mark
        THEN cr_state = pre.cr_state
        ELSE cr_state = Validating(call.largest_pkt_sent)

C3_Witness ==
    /\ call.op = "process_ack"
    /\ pre.cr_state.tag = "Unvalidated"
    /\ call.pkt_num = pre.cr_state.mark
    /\ call.largest_pkt_sent # call.pkt_num
    /\ cr_state = Validating(call.largest_pkt_sent)

\* C4: with a caller whose largest_pkt_sent never decreases, a change from
\* Unvalidated(f) to Validating(l) has l >= f.
C4_ValidatingMarkAtLeastFirst ==
    (pre.cr_state.tag = "Unvalidated" /\ cr_state.tag = "Validating") =>
        cr_state.mark >= pre.cr_state.mark

C4_Witness ==
    /\ call.op = "process_ack"
    /\ pre.cr_state.tag = "Unvalidated"
    /\ cr_state.tag = "Validating"
    /\ cr_state.mark > pre.cr_state.mark

\* C5 as stated: the phase leaves SafeRetreat(m) only by a process_ack whose
\* packet has pkt_num >= m.
C5_SafeRetreatExitOnlyByAck ==
    (pre.cr_state.tag = "SafeRetreat" /\ cr_state # pre.cr_state) =>
        (call.op = "process_ack" /\ call.pkt_num >= pre.cr_state.mark)

\* C5: the phase leaves SafeRetreat(m) only by a process_ack whose packet has
\* pkt_num >= m, or by reset().
C5_SafeRetreatExitByAckOrReset ==
    (pre.cr_state.tag = "SafeRetreat" /\ cr_state # pre.cr_state) =>
        \/ call.op = "process_ack" /\ call.pkt_num >= pre.cr_state.mark
        \/ call.op = "reset"

C5_Witness ==
    /\ pre.cr_state.tag = "SafeRetreat"
    /\ call.op = "process_ack"
    /\ call.pkt_num = pre.cr_state.mark
    /\ cr_state = Normal

\* C6: in Reconnaissance the pipesize is 0.
C6_ReconnaissancePipesizeZero ==
    cr_state = Reconnaissance => pipesize = 0

C6_Witness ==
    /\ call.op = "reset"
    /\ pre.pipesize > 0
    /\ cr_state = Reconnaissance

\* C7: congestion_event in Validating(p) moves to SafeRetreat(p), whatever
\* largest_pkt_sent is, and returns pipesize / 2.
C7_CongestionInValidating ==
    (call.op = "congestion_event" /\ pre.cr_state.tag = "Validating") =>
        /\ cr_state = SafeRetreat(pre.cr_state.mark)
        /\ ret.value = pre.pipesize \div 2

C7_Witness ==
    /\ call.op = "congestion_event"
    /\ pre.cr_state.tag = "Validating"
    /\ call.largest_pkt_sent # pre.cr_state.mark
    /\ pre.pipesize = 3
    /\ ret.value = 1

\* C8: congestion_event in Unvalidated(f) moves to
\* SafeRetreat(largest_pkt_sent), with the argument of that call, and returns
\* pipesize / 2.
C8_CongestionInUnvalidated ==
    (call.op = "congestion_event" /\ pre.cr_state.tag = "Unvalidated") =>
        /\ cr_state = SafeRetreat(call.largest_pkt_sent)
        /\ ret.value = pre.pipesize \div 2

C8_Witness ==
    /\ call.op = "congestion_event"
    /\ pre.cr_state.tag = "Unvalidated"
    /\ call.largest_pkt_sent # pre.cr_state.mark
    /\ pre.pipesize = 3
    /\ cr_state = SafeRetreat(call.largest_pkt_sent)

\* C9: process_ack in SafeRetreat(m) with pkt_num >= m moves to Normal and
\* returns (None, Some(pipesize)) without crediting the packet; with
\* pkt_num < m it credits packet.size, keeps the phase and returns
\* (None, None).
C9_SafeRetreatAck ==
    (call.op = "process_ack" /\ pre.cr_state.tag = "SafeRetreat") =>
        IF call.pkt_num >= pre.cr_state.mark
        THEN /\ cr_state = Normal
             /\ pipesize = pre.pipesize
             /\ ret = AckRet(None, Some(pre.pipesize))
        ELSE /\ cr_state = pre.cr_state
             /\ pipesize = pre.pipesize + call.size
             /\ ret = AckRet(None, None)

C9_Witness ==
    /\ call.op = "process_ack"
    /\ pre.cr_state.tag = "SafeRetreat"
    /\ call.pkt_num >= pre.cr_state.mark
    /\ call.size > 0
    /\ pre.pipesize > 0
    /\ ret.new_ssthresh = Some(pre.pipesize)

\* send_packet called in Reconnaissance, not app-limited, with a non-zero
\* jump and an RTT sample strictly inside (previous_rtt/2, previous_rtt*10)
ValidEntry ==
    /\ call.op = "send_packet"
    /\ pre.cr_state = Reconnaissance
    /\ ~call.app_limited
    /\ previous_cwnd \div 2 > call.cwnd
    /\ previous_rtt \div 2 < call.rtt_sample
    /\ call.rtt_sample < previous_rtt * 10

\* C10: such a send_packet moves to Unvalidated(largest_pkt_sent), sets
\* pipesize to cwnd and returns a jump with cwnd + jump = previous_cwnd / 2.
C10_ValidEntryJump ==
    ValidEntry =>
        /\ cr_state = Unvalidated(call.largest_pkt_sent)
        /\ pipesize = call.cwnd
        /\ call.cwnd + ret.value = previous_cwnd \div 2

C10_Witness ==
    /\ ValidEntry
    /\ call.cwnd > 0
    /\ call.largest_pkt_sent > 0
    /\ ret.value > 0
    /\ cr_state.tag = "Unvalidated"

\* send_packet called in Reconnaissance, not app-limited
Attempt ==
    /\ call.op = "send_packet"
    /\ pre.cr_state = Reconnaissance
    /\ ~call.app_limited

\* the RTT check of send_packet rejects the sample of the call
RttRejected ==
    \/ call.rtt_sample <= previous_rtt \div 2
    \/ call.rtt_sample >= previous_rtt * 10

\* C11: send_packet in Reconnaissance, not app-limited, with
\* cwnd >= previous_cwnd / 2 moves to Normal and returns 0 whatever the RTT
\* sample is, and the trigger recorded is CwndLimited.
C11_CwndLimitedFirst ==
    (Attempt /\ call.cwnd >= previous_cwnd \div 2) =>
        /\ cr_state = Normal
        /\ ret.value = 0
        /\ last_trigger = Some("CwndLimited")

C11_Witness ==
    /\ Attempt
    /\ call.cwnd >= previous_cwnd \div 2
    /\ previous_rtt > 0
    /\ RttRejected
    /\ last_trigger = Some("CwndLimited")

\* C12: send_packet in Reconnaissance, not app-limited, with a non-zero jump
\* moves to Normal, returns 0 and leaves pipesize at 0 exactly when
\* rtt_sample <= previous_rtt / 2 or rtt_sample >= previous_rtt * 10.
C12_RttNotValidated ==
    (Attempt /\ previous_cwnd \div 2 > call.cwnd) =>
        ((cr_state = Normal /\ ret.value = 0 /\ pipesize = 0) <=> RttRejected)

C12_Witness ==
    /\ Attempt
    /\ previous_cwnd \div 2 > call.cwnd
    /\ previous_rtt > 0
    /\ call.rtt_sample = previous_rtt * 10
    /\ cr_state = Normal
    /\ last_trigger = Some("RttNotValidated")

\* C13: a send_packet call made outside Reconnaissance, or with app_limited
\* in any phase, returns 0 and leaves phase, pipesize, enabled and the
\* remembered parameters as they were.
C13_SendPacketNoEffect ==
    [][(call'.op = "send_packet"
            /\ (cr_state # Reconnaissance \/ call'.app_limited)) =>
         (/\ ret'.value = 0
          /\ UNCHANGED <<cr_state, pipesize, enabled, previous_rtt,
                         previous_cwnd>>)]_vars

C13_Witness ==
    /\ call.op = "send_packet"
    /\ call.app_limited
    /\ pre.cr_state = Reconnaissance
    /\ previous_cwnd \div 2 > call.cwnd
    /\ ~RttRejected
    /\ cr_state = Reconnaissance
    /\ ret.value = 0

\* C14: process_ack in Validating(last) adds packet.size to pipesize and
\* returns (None, None); the phase becomes Normal when pkt_num >= last and
\* stays Validating(last) otherwise.
C14_ValidatingAck ==
    (call.op = "process_ack" /\ pre.cr_state.tag = "Validating") =>
        /\ pipesize = pre.pipesize + call.size
        /\ ret = AckRet(None, None)
        /\ cr_state = IF call.pkt_num >= pre.cr_state.mark
                      THEN Normal
                      ELSE pre.cr_state

C14_Witness ==
    /\ call.op = "process_ack"
    /\ pre.cr_state.tag = "Validating"
    /\ call.pkt_num = pre.cr_state.mark
    /\ call.size > 0
    /\ cr_state = Normal

\* C15: a process_ack call that returns new_cwnd = Some(v) moved the phase
\* from Unvalidated to Validating and v is its flightsize; a process_ack call
\* that leaves the phase unchanged returns new_cwnd = None.
C15_NewCwndOnlyOnTransition ==
    call.op = "process_ack" =>
        /\ ret.new_cwnd # None =>
               /\ pre.cr_state.tag = "Unvalidated"
               /\ cr_state.tag = "Validating"
               /\ ret.new_cwnd = Some(call.flightsize)
        /\ cr_state = pre.cr_state => ret.new_cwnd = None

C15_Witness ==
    /\ call.op = "process_ack"
    /\ ret.new_cwnd = Some(call.flightsize)
    /\ pre.cr_state.tag = "Unvalidated"
    /\ cr_state.tag = "Validating"

\* Careful Resume was given up by a congestion event in Reconnaissance, and
\* no reset() came since: PacketLoss leads to Normal from Reconnaissance only
Abandoned ==
    /\ cr_state = Normal
    /\ last_trigger = Some("PacketLoss")

\* C16: congestion_event in Reconnaissance moves to Normal and returns 0;
\* from then on, until a reset(), the phase stays Normal and every
\* send_packet returns 0.
C16_AbandonedOnEarlyCongestion ==
    /\ [](call.op = "congestion_event" /\ pre.cr_state = Reconnaissance =>
              Abandoned /\ ret.value = 0)
    /\ [][(Abandoned /\ call'.op # "reset") =>
              /\ Abandoned'
              /\ call'.op = "send_packet" => ret'.value = 0]_vars

C16_Witness ==
    /\ Abandoned
    /\ call.op = "send_packet"
    /\ ~call.app_limited
    /\ previous_cwnd \div 2 > call.cwnd
    /\ ~RttRejected
    /\ ret.value = 0

\* C17: congestion_event in SafeRetreat(m) or Normal returns 0 and changes
\* no field, whatever largest_pkt_sent is.
C17_CongestionIgnored ==
    [][(call'.op = "congestion_event"
            /\ cr_state.tag \in {"SafeRetreat", "Normal"}) =>
         (ret'.value = 0 /\ UNCHANGED resume)]_vars

C17_Witness ==
    /\ call.op = "congestion_event"
    /\ pre.cr_state.tag = "SafeRetreat"
    /\ call.largest_pkt_sent # pre.cr_state.mark
    /\ pre.pipesize > 1
    /\ cr_state = pre.cr_state
    /\ ret.value = 0

\* C19: setup(previous_rtt, previous_cwnd) in any phase sets enabled, stores
\* both arguments over whatever was remembered, and keeps phase and
\* pipesize; what it leaves does not depend on an earlier setup.
C19_SetupOverwrites ==
    call.op = "setup" =>
        /\ enabled
        /\ previous_rtt = call.previous_rtt
        /\ previous_cwnd = call.previous_cwnd
        /\ cr_state = pre.cr_state
        /\ pipesize = pre.pipesize

C19_Witness ==
    /\ call.op = "setup"
    /\ pre.cr_state.tag = "Validating"
    /\ pre.pipesize > 0
    /\ call.previous_rtt > 0
    /\ call.previous_cwnd = 1
    /\ previous_cwnd = 1

\* C18: after reset(), every sequence of calls leaves the same phase and
\* pipesize and returns the same values, call by call, as it does on a Resume
\* constructed anew and set up with the same remembered parameters.
C18_ResetLikeFresh ==
    /\ twin.self.cr_state = cr_state
    /\ twin.self.pipesize = pipesize
    /\ twin.ret = ret

\* a call made after a reset() of an instance that had left Reconnaissance
\* before: the instance still holds the trigger of that time, the twin none
C18_Witness ==
    /\ call.op = "send_packet"
    /\ pre.cr_state = Reconnaissance
    /\ last_trigger = Some("ExitRecovery")
    /\ twin.self.last_trigger = None
    /\ twin.self.cr_state = cr_state
    /\ previous_cwnd \div 2 > call.cwnd

\* C20: enabled() returns true exactly when setup() has been called at least
\* once on this instance and the phase is not Normal.
C20_EnabledQuery ==
    enabled_query <=> (setup_called /\ cr_state # Normal)

C20_Witness ==
    /\ setup_called
    /\ call.op = "reset"
    /\ pre.cr_state = Normal
    /\ enabled_query

\* C21: on a run in which congestion_event is never called, no process_ack
\* call returns new_ssthresh = Some(_); on any run, a Some(new_ssthresh) is
\* returned only by the process_ack call that takes SafeRetreat to Normal.
C21_NoSsthreshOnHappyPath ==
    /\ [](call.op # "congestion_event") => [](ret.new_ssthresh = None)
    /\ [](ret.new_ssthresh # None =>
             /\ call.op = "process_ack"
             /\ pre.cr_state.tag = "SafeRetreat"
             /\ cr_state = Normal)

C21_Witness ==
    /\ call.op = "process_ack"
    /\ pre.cr_state.tag = "Validating"
    /\ cr_state = Normal
    /\ last_trigger = Some("CrMarkAcknowledged")
    /\ ret.new_ssthresh = None

\* C25: congestion_event returns 0 exactly when it mandates no cwnd change:
\* every congestion_event call that moves the phase into SafeRetreat returns
\* a non-zero cwnd, and every other congestion_event call returns 0.
C25_RetreatReturnsNonZero ==
    call.op = "congestion_event" =>
        (ret.value # 0 <=> EnteredSafeRetreat)

\* the place of a phase in the order Reconnaissance < Unvalidated <
\* Validating < SafeRetreat < Normal
PhaseOrder(state) ==
    CASE state.tag = "Reconnaissance" -> 0
      [] state.tag = "Unvalidated" -> 1
      [] state.tag = "Validating" -> 2
      [] state.tag = "SafeRetreat" -> 3
      [] state.tag = "Normal" -> 4

\* C27: no call other than reset() moves the phase back in the order
\* Reconnaissance < Unvalidated < Validating < SafeRetreat < Normal or changes
\* the mark of a phase that is held; so Unvalidated is entered only from
\* Reconnaissance, and send_packet returns a non-zero jump only on that step,
\* which a run without reset() takes at most once.
C27_PhaseForwardOnly ==
    call.op # "reset" =>
        /\ PhaseOrder(cr_state) >= PhaseOrder(pre.cr_state)
        /\ cr_state.tag = pre.cr_state.tag => cr_state = pre.cr_state
        /\ cr_state.tag = "Reconnaissance" => pre.cr_state = Reconnaissance
        /\ (call.op = "send_packet" /\ ret.value # 0) =>
               /\ pre.cr_state = Reconnaissance
               /\ cr_state.tag = "Unvalidated"

C27_Witness ==
    /\ call.op = "send_packet"
    /\ ~call.app_limited
    /\ pre.cr_state = Unvalidated(MaxPkt)
    /\ cr_state = Unvalidated(MaxPkt)
    /\ ret.value = 0

\* C22: a CRMetrics::maybe_update call with new_cwnd < 4 * iw returns None and
\* leaves min_rtt, cwnd and last_update as they were, whatever new_min_rtt is
\* and however long ago the last update was, more than 60 s included.
C22_BelowFloorNoUpdate ==
    (observed.op = "maybe_update" /\ observed.new_cwnd < 4 * metrics.iw) =>
        /\ event = None
        /\ metrics.min_rtt = observed.before.min_rtt
        /\ metrics.cwnd = observed.before.cwnd
        /\ since_last_update = observed.time_since_last_update

C22_Witness ==
    /\ observed.op = "maybe_update"
    /\ observed.new_cwnd < 4 * metrics.iw
    /\ observed.new_cwnd # observed.before.cwnd
    /\ observed.new_min_rtt # observed.before.min_rtt
    /\ observed.time_since_last_update > CR_EVENT_MAXIMUM_GAP
    /\ event = None

\* C23: a maybe_update call that emits an event for the very (min_rtt, cwnd)
\* pair stored by the event before it comes more than 60 s after that event:
\* the same input repeated yields at most one event per 60-second window.
C23_SameInputOncePerGap ==
    (/\ observed.op = "maybe_update"
     /\ event # None
     /\ observed.new_min_rtt = observed.before.min_rtt
     /\ observed.new_cwnd = observed.before.cwnd) =>
        observed.time_since_last_update > CR_EVENT_MAXIMUM_GAP

C23_Witness ==
    /\ observed.op = "maybe_update"
    /\ observed.before = [min_rtt |-> 1, cwnd |-> MaxWindow]
    /\ event = Some([cwnd |-> MaxWindow, min_rtt |-> 1])
    /\ observed.time_since_last_update > CR_EVENT_MAXIMUM_GAP

\* C24: a maybe_update call made more than 60 s after last_update with
\* new_cwnd >= 4 * iw returns CREvent{cwnd: new_cwnd, min_rtt: new_min_rtt}
\* and stores that pair and the current time, inside the ranges or not.
C24_GapForcesUpdate ==
    (/\ observed.op = "maybe_update"
     /\ observed.time_since_last_update > CR_EVENT_MAXIMUM_GAP
     /\ observed.new_cwnd >= 4 * metrics.iw) =>
        /\ event = Some([cwnd |-> observed.new_cwnd,
                         min_rtt |-> observed.new_min_rtt])
        /\ metrics.min_rtt = observed.new_min_rtt
        /\ metrics.cwnd = observed.new_cwnd
        /\ since_last_update = 0

C24_Witness ==
    /\ observed.op = "maybe_update"
    /\ metrics.iw > 0
    /\ observed.time_since_last_update = CR_EVENT_MAXIMUM_GAP + 1
    /\ observed.new_min_rtt = observed.before.min_rtt
    /\ observed.new_cwnd = observed.before.cwnd
    /\ event # None
    /\ since_last_update = 0

\* C26: maybe_qlog returns an event exactly when the phase (variant and mark)
\* is not the one for which it last returned an event; the first call
\* returns one with old = None, later ones name the phase of the last event
\* as old, and a call that finds that phase still current returns None
\* whatever pipesize, cwnd, ssthresh and the trigger are.
C26_EventIffPhaseChanged ==
    [][logged'.op = "maybe_qlog" =>
         /\ qlog_event' # None <=> last_emitted # Some(cr_state)
         /\ qlog_event' # None =>
                /\ qlog_event'[1].new = cr_state.tag
                /\ qlog_event'[1].old =
                       IF last_emitted = None THEN None
                       ELSE Some(last_emitted[1].tag)]_vars

C26_Witness ==
    /\ logged.op = "maybe_qlog"
    /\ qlog_event = None
    /\ last_emitted = Some(cr_state)
    /\ logged.cwnd # qlog_metrics.cwnd
    /\ logged.ssthresh # qlog_metrics.ssthresh
    /\ pipesize # qlog_metrics.pipesize
    /\ last_trigger # qlog_metrics.trigger

\* C28: on a connection that is never reset and on which an ack at or above
\* the current mark is always eventually processed, a phase of Unvalidated,
\* Validating or SafeRetreat leads to Normal.
C28_CarefulResumeEnds ==
    InCarefulResume ~> cr_state = Normal

C28_Witness ==
    /\ call.op = "process_ack"
    /\ pre.cr_state.tag = "SafeRetreat"
    /\ call.pkt_num >= pre.cr_state.mark
    /\ pre.pipesize > MaxPipesize
    /\ cr_state = Normal

====
